---------------------------- MODULE Spec2Model ----------------------------
(***************************************************************************)
(* A model of the example functions of go-leak-to-heap: functions.go,      *)
(* keep_on_stack.go (the Go text of src/Makefile) and the benchmark        *)
(* drivers that call them (src/stack_benchmark_test.go and the Go text at  *)
(* the end of src/README.md).  Each group of functions has its own state   *)
(* and its own specification; the state of the groups a specification      *)
(* does not exercise is left at its initial value.                         *)
(***************************************************************************)
EXTENDS Integers, Sequences, FiniteSets, TLC

VARIABLES
    \* BenchmarkSendToChannel: the channel and the benchmark loop
    ch,        \* the values buffered in the channel, oldest first
    cpc,       \* where the goroutine is: "send", "recv", "blocked", "done"
    ci,        \* the loop counter i
    bN,        \* b.N, the number of iterations the runner asks for
    recv,      \* the value of the last receive (0 before the first)
    \* useArrayInsteadOfMap / mapLookup
    key,       \* the argument of the lookups
    arrRet,    \* what useArrayInsteadOfMap(key) returned ("" before the call)
    mapRet,    \* what mapLookup(key) returned ("" before the call)
    \* createSlice / initSliceViaPointer
    r,         \* the caller's slice variable: [id, arr, len]; id names the
               \* backing array, arr is its contents (cap(r) = Len(arr))
    allocs,    \* how many backing arrays initSliceViaPointer has made
    ret,       \* the slice createSlice returned last
    last,      \* the last call: [fn, size, oldCap, oldId, prevSize, outcome]
    \* BufferProcessor
    heap,      \* the byte arrays made so far, by their contents
    bp_buffer, \* bp.buffer: [arr, len, cap]
    data,      \* the slice passed to the last ProcessData call
    dataArr,   \* the caller's own input array
    lastIn,    \* the bytes data held when the last call was made
    out,       \* the slice the last ProcessData call returned
    held,      \* a slice an earlier call returned, kept by the caller
    heldIn,    \* the bytes that earlier call's data held
    allFit,    \* every input so far had len(data) <= BufferCap
    calls,     \* how many ProcessData calls were made
    \* largeStructPool
    objs,            \* the data of each LargeStruct
    largeStructPool, \* how many times each object is in the pool
    gpc,       \* where each goroutine is: "idle", "got" (inside
               \* useSyncPool, after Get), "returned" (useSyncPool has
               \* just returned), "holding" (it has written to obj.data)
    obj,       \* the object each goroutine holds (0: none)
    gotDirty,  \* whether Get gave the goroutine an object with data in it
    \* preallocatedSlice / sliceGrowth
    result,    \* preallocatedSlice's result: [elems, cap]
    ppc,       \* where preallocatedSlice is: "start", "loop", "done"
    pi,        \* its loop counter i
    pAllocs,   \* how many backing arrays it has allocated
    slice,     \* sliceGrowth's slice: [elems, cap]
    spc,       \* where sliceGrowth is
    si,        \* its loop counter i
    sAllocs,   \* how many backing arrays it has allocated
    \* ProcessData on data that lives in the same memory as the buffer
    memory,    \* every byte array: the processor's, the caller's, append's
    buffer,    \* bp.buffer: [arr, len, cap]
    arg,       \* the slice passed as data to the last call: [arr, off, len]
    argIn,     \* the bytes arg held when the call was made
    bufWas,    \* the array bp.buffer was in when the call was made
    got,       \* the slice the last call returned
    ncalls,    \* how many calls were made
    \* processValueSemantics and its caller
    callerData, \* the caller's array data, the argument of every call
    dataIn,    \* what the caller put in data before the first call
    paramData, \* the function's parameter data (<<>> outside a call)
    vi,        \* the function's loop index i
    vpc,       \* where the caller is: "idle" or, inside the call, "loop"
    vr,        \* the caller's r, the last result (<<>> before the first)
    vprev,     \* the result of the call before the last (<<>> if none)
    \* returnPointer / returnLocalPointer and the pointers they return
    cells,     \* what each int-sized piece of storage holds
    ptrs,      \* the caller's pointer variables: an address, or 0 for nil
    by,        \* the function each pointer came from ("" for nil)
    wrote      \* the last value the caller stored through each pointer
               \* (0: it has not stored any)

chanVars   == <<ch, cpc, ci, bN, recv>>
lookupVars == <<key, arrRet, mapRet>>
sliceVars  == <<r, allocs, ret, last>>
bufVars    == <<heap, bp_buffer, data, dataArr, lastIn, out, held, heldIn, allFit, calls>>
poolVars   == <<objs, largeStructPool, gpc, obj, gotDirty>>
growVars   == <<result, ppc, pi, pAllocs, slice, spc, si, sAllocs>>
memVars    == <<memory, buffer, arg, argIn, bufWas, got, ncalls>>
valueVars  == <<callerData, dataIn, paramData, vi, vpc, vr, vprev>>
ptrVars    == <<cells, ptrs, by, wrote>>
vars       == <<chanVars, lookupVars, sliceVars, bufVars, poolVars, growVars, memVars, valueVars, ptrVars>>

Max(a, b) == IF a > b THEN a ELSE b

(***************************************************************************)
(* Case 7: channel operations.                                             *)
(***************************************************************************)
\* the largest b.N the model runs
MaxN == 10

\* ch := make(chan int, 1)
ChanCap == 1

\* x := 42
sendToChannel_x == 42

ChanInit ==
    /\ ch = <<>>
    /\ cpc = "send"
    /\ ci = 0
    /\ recv = 0

\* sendToChannel(ch): ch <- x.  A send on a full buffered channel parks the
\* goroutine; with no other goroutine to receive it never wakes up.
sendToChannel ==
    /\ cpc = "send"
    /\ ci < bN
    /\ IF Len(ch) < ChanCap
          THEN /\ ch' = Append(ch, sendToChannel_x)
               /\ cpc' = "recv"
          ELSE /\ cpc' = "blocked"
               /\ ch' = ch
    /\ UNCHANGED <<ci, bN, recv>>

\* a receive that reads the head of the buffer and leaves it there
Receive_NoConsume ==
    /\ cpc = "recv"
    /\ IF Len(ch) > 0
          THEN /\ recv' = Head(ch)
               /\ ch' = ch
               /\ ci' = ci + 1
               /\ cpc' = "send"
          ELSE /\ cpc' = "blocked"
               /\ UNCHANGED <<ch, ci, recv>>
    /\ UNCHANGED bN

\* <-ch, then i++.  A receive on an empty channel parks the goroutine.
Receive ==
    /\ cpc = "recv"
    /\ IF Len(ch) > 0
          THEN /\ recv' = Head(ch)
               /\ ch' = Tail(ch)
               /\ ci' = ci + 1
               /\ cpc' = "send"
          ELSE /\ cpc' = "blocked"
               /\ UNCHANGED <<ch, ci, recv>>
    /\ UNCHANGED bN

\* i < b.N fails: the loop ends
LoopExit ==
    /\ cpc = "send"
    /\ ci = bN
    /\ cpc' = "done"
    /\ UNCHANGED <<ch, ci, bN, recv>>

(***************************************************************************)
(* 15. useArrayInsteadOfMap and its heap-allocating twin mapLookup.        *)
(***************************************************************************)
\* the keys the model passes: -MaxKey .. MaxKey
MaxKey == 14
Keys == (0 - MaxKey)..MaxKey

\* what a call that ends in a runtime panic yields
Panic == "panic"

\* values := [4]string{"zero", "one", "two", "three"}; values[k] is
\* values[k + 1] here, sequences being indexed from 1
values == <<"zero", "one", "two", "three">>

\* the bounds test with its upper bound off by one
InRange_InclusiveUpper(k, n) == k >= 0 /\ k <= n

\* the bounds test with its lower bound off by one
InRange_SkipsZero(k, n) == k > 0 /\ k < n

\* key >= 0 && key < len(values)
InRange(k, n) == k >= 0 /\ k < n

\* values[key]: indexing an array outside 0 .. len-1 is a runtime panic
useArrayInsteadOfMap(k) ==
    IF InRange(k, Len(values))
       THEN IF k + 1 \in DOMAIN values THEN values[k + 1] ELSE Panic
       ELSE "unknown"

\* m := map[int]string{0: "zero", 1: "one", 2: "two", 3: "three"}
m == (0 :> "zero") @@ (1 :> "one") @@ (2 :> "two") @@ (3 :> "three")

\* if val, ok := m[key]; ok { return val }; return "unknown"
mapLookup(k) ==
    IF k \in DOMAIN m THEN m[k] ELSE "unknown"

LookupInit ==
    /\ arrRet = ""
    /\ mapRet = ""

CallUseArrayInsteadOfMap ==
    /\ arrRet = ""
    /\ arrRet' = useArrayInsteadOfMap(key)
    /\ UNCHANGED <<key, mapRet>>

CallMapLookup ==
    /\ mapRet = ""
    /\ mapRet' = mapLookup(key)
    /\ UNCHANGED <<key, arrRet>>

(***************************************************************************)
(* Case 5 and case 11: createSlice and initSliceViaPointer.                *)
(*                                                                         *)
(* A []int is modelled by the contents of its backing array from the      *)
(* slice's first element to its capacity (arr) and by its length (len);   *)
(* a nil slice has no array (arr = <<>>) and length 0.                     *)
(***************************************************************************)
\* the longest slice the runtime's make accepts (maxAlloc / element size),
\* scaled down; the sizes passed are -1 .. MaxAllocLen + 1
MaxAllocLen == 3
Sizes == (0 - 1)..(MaxAllocLen + 1)

\* the largest capacity of the slice the caller starts with
MaxInitCap == 2

\* what the caller's array may hold before the first call
StaleVals == {0, 7}

Cap(s) == Len(s.arr)

NilSlice == [id |-> 0, arr |-> <<>>, len |-> 0]

\* make([]int, n): n zeroed elements, or a panic (makeslice: len out of
\* range) when n is negative or more than the runtime can allocate
MakePanics(n) == n < 0 \/ n > MaxAllocLen
Make(n) == [i \in 1..n |-> 0]

\* s := make([]int, size); return s
createSlice(size) ==
    IF MakePanics(size)
       THEN [outcome |-> Panic, slice |-> NilSlice]
       ELSE [outcome |-> "returned",
             slice |-> [id |-> 0, arr |-> Make(size), len |-> size]]

\* the capacity test made on the length
HasCapacity_UsesLen(s, size) == s.len >= size

\* capresult >= size
HasCapacity(s, size) == Cap(s) >= size

\* the fill loop storing i + 1
FillIndex_FromOne(a, n) == [i \in 1..Len(a) |-> IF i <= n THEN i ELSE a[i]]

\* for i := range *result { result[i] = i }: writes the first n = len
\* elements of the array and leaves the rest of it as it was
FillIndex(a, n) == [i \in 1..Len(a) |-> IF i <= n THEN i - 1 ELSE a[i]]

\* initSliceViaPointer(&s, size) with id the name a new array would get.
\* result[:size] panics (slice bounds out of range) for a size outside
\* 0 .. cap; a panic leaves *result as it was.
initSliceViaPointer(s, size, id) ==
    IF HasCapacity(s, size)
       THEN IF size < 0 \/ size > Cap(s)
               THEN [outcome |-> Panic, slice |-> s]
               ELSE [outcome |-> "returned",
                     slice |-> [id |-> s.id,
                                arr |-> FillIndex(s.arr, size),
                                len |-> size]]
       ELSE IF MakePanics(size)
               THEN [outcome |-> Panic, slice |-> s]
               ELSE [outcome |-> "returned",
                     slice |-> [id |-> id,
                                arr |-> FillIndex(Make(size), size),
                                len |-> size]]

NoCall == [fn |-> "none", size |-> 0, oldCap |-> 0, oldId |-> 0,
           prevSize |-> 0 - 2, outcome |-> "returned"]

\* the slices a caller may pass: nil, or any array of up to MaxInitCap
\* elements with any contents, at any length up to its capacity
InitialSlices ==
    {NilSlice} \cup
    UNION {{[id |-> 0, arr |-> a, len |-> n] :
               a \in [1..c -> StaleVals], n \in 0..c} : c \in 1..MaxInitCap}

SliceInit ==
    /\ allocs = 0
    /\ ret = NilSlice
    /\ last = NoCall

\* an unrecovered panic ends the program: nothing is called after it
Running == last.outcome # Panic

CallCreateSlice ==
    /\ Running
    /\ \E size \in Sizes :
          LET res == createSlice(size) IN
          /\ ret' = res.slice
          /\ last' = [fn |-> "createSlice", size |-> size, oldCap |-> 0,
                      oldId |-> 0, prevSize |-> 0 - 2,
                      outcome |-> res.outcome]
    /\ UNCHANGED <<r, allocs>>

CallInitSliceViaPointer ==
    /\ Running
    /\ \E size \in Sizes :
          LET res == initSliceViaPointer(r, size, allocs + 1) IN
          /\ r' = res.slice
          /\ allocs' = IF res.slice.id = r.id THEN allocs ELSE allocs + 1
          /\ last' = [fn |-> "initSliceViaPointer", size |-> size,
                      oldCap |-> Cap(r), oldId |-> r.id,
                      prevSize |-> IF last.fn = "initSliceViaPointer"
                                      THEN last.size ELSE 0 - 2,
                      outcome |-> res.outcome]
    /\ UNCHANGED ret

(***************************************************************************)
(* 10. Buffer reuse: BufferProcessor.                                      *)
(*                                                                         *)
(* heap holds the byte arrays made by NewBufferProcessor and by append,    *)
(* heap[a] being the contents of array a up to its capacity.  A slice is   *)
(* [arr, off, len]: len bytes of array arr from offset off; bp.buffer      *)
(* always starts at offset 0 and carries its capacity.                     *)
(***************************************************************************)
\* the capacity NewBufferProcessor gives the buffer (1024), scaled down
BufferCap == 2

\* the most ProcessData calls the model makes on the processor
MaxCalls == 3

\* the longest input: one byte more than the buffer holds
MaxDataLen == BufferCap + 1

\* the bytes a caller's own input is made of
InBytes == {0, 90}

\* bp.buffer[i] ^ 0xFF
XorMask == 255

RECURSIVE XorBits(_, _, _)
\* the exclusive or of the low n bits of a and b
XorBits(a, b, n) ==
    IF n = 0
       THEN 0
       ELSE (((a % 2) + (b % 2)) % 2) + 2 * XorBits(a \div 2, b \div 2, n - 1)

\* ^ on two bytes
Xor8(a, b) == XorBits(a, b, 8)

NoSlice == [arr |-> 0, off |-> 0, len |-> 0]

\* make([]byte, 0) in place of make([]byte, 0, 1024)
NewBufferProcessor_NoCap ==
    [heap |-> << <<>> >>, buffer |-> [arr |-> 1, len |-> 0, cap |-> 0]]

\* &BufferProcessor{buffer: make([]byte, 0, 1024)}: one zeroed array
NewBufferProcessor ==
    [heap |-> << [i \in 1..BufferCap |-> 0] >>,
     buffer |-> [arr |-> 1, len |-> 0, cap |-> BufferCap]]

\* the buffer's length left as the call before set it
ResetLen_Keep(b) == b

\* bp.buffer = bp.buffer[:0]
ResetLen(b) == [b EXCEPT !.len = 0]

\* the capacity append gives the array it makes when need elements do not
\* fit in old: the runtime doubles a small slice, or takes what is needed
GrowCap(old, need) == Max(need, 2 * old)

\* copy(b[len(b):cap(b)], in) in place of append: what does not fit in the
\* buffer's array is dropped
AppendBytes_Copy(h, b, in) ==
    LET need == IF b.len + Len(in) <= b.cap THEN b.len + Len(in) ELSE b.cap IN
    [heap |-> [h EXCEPT ![b.arr] =
                 [i \in 1..Len(@) |->
                    IF i > b.len /\ i <= need THEN in[i - b.len] ELSE @[i]]],
     buffer |-> [b EXCEPT !.len = need]]

\* append(b, in...): the bytes go into the buffer's array after its len
\* elements when they fit; otherwise a new array gets the len elements and
\* the bytes, the rest of it zeroed, and the old array is left as it is
AppendBytes(h, b, in) ==
    LET need == b.len + Len(in) IN
    IF need <= b.cap
       THEN [heap |-> [h EXCEPT ![b.arr] =
                         [i \in 1..Len(@) |->
                            IF i > b.len /\ i <= need THEN in[i - b.len] ELSE @[i]]],
             buffer |-> [b EXCEPT !.len = need]]
       ELSE LET newcap == GrowCap(b.cap, need) IN
            [heap |-> Append(h, [i \in 1..newcap |->
                                   IF i <= b.len THEN h[b.arr][i]
                                   ELSE IF i <= need THEN in[i - b.len]
                                   ELSE 0]),
             buffer |-> [arr |-> Len(h) + 1, len |-> need, cap |-> newcap]]

\* for i := range bp.buffer { bp.buffer[i] = bp.buffer[i] ^ 0xFF }
XorInPlace(h, b) ==
    [h EXCEPT ![b.arr] =
        [i \in 1..Len(@) |-> IF i <= b.len THEN Xor8(@[i], XorMask) ELSE @[i]]]

\* bp.ProcessData(data), in being the bytes data holds when it is called
ProcessData(h, b, in) ==
    LET app == AppendBytes(h, ResetLen(b), in) IN
    [heap |-> XorInPlace(app.heap, app.buffer), buffer |-> app.buffer]

\* the bytes a slice shows: the caller's own array (arr = 0) or a heap array
ReadSlice(h, own, s) ==
    IF s.arr = 0
       THEN SubSeq(own, s.off + 1, s.off + s.len)
       ELSE SubSeq(h[s.arr], s.off + 1, s.off + s.len)

\* what a caller may pass: bytes of its own, of any length up to
\* MaxDataLen, or a slice an earlier call returned to it
OwnInputs == UNION {[1..n -> InBytes] : n \in 0..MaxDataLen}

BufferInit ==
    /\ heap = NewBufferProcessor.heap
    /\ bp_buffer = NewBufferProcessor.buffer
    /\ data = NoSlice
    /\ dataArr = <<>>
    /\ lastIn = <<>>
    /\ out = NoSlice
    /\ held = NoSlice
    /\ heldIn = <<>>
    /\ allFit = TRUE
    /\ calls = 0

\* r = bp.ProcessData(data) on bytes of the caller's own
CallProcessData ==
    /\ calls < MaxCalls
    /\ \E own \in OwnInputs :
          \E res \in {ProcessData(heap, bp_buffer, own)} :
              /\ data' = [arr |-> 0, off |-> 0, len |-> Len(own)]
              /\ dataArr' = own
              /\ lastIn' = own
              /\ heap' = res.heap
              /\ bp_buffer' = res.buffer
              /\ out' = [arr |-> res.buffer.arr, off |-> 0, len |-> res.buffer.len]
              /\ allFit' = (allFit /\ Len(own) <= BufferCap)
    /\ calls' = calls + 1
    /\ UNCHANGED <<held, heldIn>>

\* r = bp.ProcessData(r') on a slice r' an earlier call returned
CallProcessDataOnResult ==
    /\ calls < MaxCalls
    /\ \E s \in {out, held} :
          /\ s.arr # 0
          /\ \E in \in {ReadSlice(heap, dataArr, s)} :
                \E res \in {ProcessData(heap, bp_buffer, in)} :
                    /\ data' = s
                    /\ lastIn' = in
                    /\ heap' = res.heap
                    /\ bp_buffer' = res.buffer
                    /\ out' = [arr |-> res.buffer.arr, off |-> 0, len |-> res.buffer.len]
                    /\ allFit' = (allFit /\ Len(in) <= BufferCap)
    /\ calls' = calls + 1
    /\ dataArr' = <<>>
    /\ UNCHANGED <<held, heldIn>>

\* the caller keeps the slice the last call returned
KeepResult ==
    /\ out.arr # 0
    /\ held' = out
    /\ heldIn' = lastIn
    /\ held # out
    /\ UNCHANGED <<heap, bp_buffer, data, dataArr, lastIn, out, allFit, calls>>

(***************************************************************************)
(* 10, continued.  ProcessData with the caller's data in memory.           *)
(*                                                                         *)
(* memory holds every byte array there is: the one NewBufferProcessor      *)
(* made, the caller's own array, and the ones append makes.  The data a    *)
(* caller passes is a slice of any of them, so that what ProcessData       *)
(* writes can be seen through it.                                          *)
(***************************************************************************)
\* the array the caller keeps its own bytes in, as in data := []byte(...)
CallerArr == Len(NewBufferProcessor.heap) + 1

MemInit ==
    /\ memory = Append(NewBufferProcessor.heap, <<>>)
    /\ buffer = NewBufferProcessor.buffer
    /\ arg = NoSlice
    /\ argIn = <<>>
    /\ bufWas = 0
    /\ got = NoSlice
    /\ ncalls = 0

\* every slice [arr, off, len] of the arrays of mem
SlicesOf(mem) ==
    {s \in [arr : 1..Len(mem), off : 0..MaxDataLen, len : 0..MaxDataLen] :
        s.off + s.len <= Len(mem[s.arr])}

\* r = bp.ProcessData(d) with d a slice of memory mem
ProcessSlice(mem, d) ==
    /\ \E in \in {ReadSlice(mem, <<>>, d)} :
          \E res \in {ProcessData(mem, buffer, in)} :
              /\ argIn' = in
              /\ memory' = res.heap
              /\ buffer' = res.buffer
              /\ got' = [arr |-> res.buffer.arr, off |-> 0, len |-> res.buffer.len]
    /\ arg' = d
    /\ bufWas' = buffer.arr
    /\ ncalls' = ncalls + 1

\* data := []byte(...); r = bp.ProcessData(data)
ProcessOwnData ==
    /\ ncalls < MaxCalls
    /\ \E own \in OwnInputs :
          ProcessSlice([memory EXCEPT ![CallerArr] = own],
                       [arr |-> CallerArr, off |-> 0, len |-> Len(own)])

\* r = bp.ProcessData(d) on a slice d of an array of an earlier call: of
\* the buffer's, of one the buffer has left, or of the caller's
ProcessSliceOfMemory ==
    /\ ncalls < MaxCalls
    /\ ncalls > 0
    /\ \E d \in SlicesOf(memory) : ProcessSlice(memory, d)

(***************************************************************************)
(* 2. Value semantics: processValueSemantics.                              *)
(*                                                                         *)
(* An int has IntBits bits and *= wraps around as Go's does.  The array    *)
(* parameter is a variable of the function: the call copies the caller's   *)
(* array into it and the return copies it out.                             *)
(***************************************************************************)
\* the length of the array ([100]int), scaled down
ArrLen == 2

\* the width of an int (64 bits), scaled down
IntBits == 3

IntMin == 0 - 2 ^ (IntBits - 1)

IntMax == 2 ^ (IntBits - 1) - 1

\* the value an int variable holds after an operation whose exact result
\* is x: the low IntBits bits of x, read as a signed number
WrapInt(x) == ((x - IntMin) % 2 ^ IntBits) + IntMin

\* the arrays a caller may pass
IntArrays == [1..ArrLen -> IntMin..IntMax]

\* for i := range data { data[i] = i }
BenchData == [i \in 1..ArrLen |-> WrapInt(i - 1)]

ValueInit(a) ==
    /\ callerData = a
    /\ dataIn = a
    /\ paramData = <<>>
    /\ vi = 0
    /\ vpc = "idle"
    /\ vr = <<>>
    /\ vprev = <<>>

\* r = processValueSemantics(data): the argument is copied to the parameter
processValueSemantics_Call ==
    /\ vpc = "idle"
    /\ paramData' = callerData
    /\ vi' = 0
    /\ vpc' = "loop"
    /\ UNCHANGED <<callerData, dataIn, vr, vprev>>

\* the function given a pointer to the caller's array: (*data)[i] *= 2
processValueSemantics_Loop_ViaPointer ==
    /\ vpc = "loop"
    /\ vi < ArrLen
    /\ callerData' = [callerData EXCEPT ![vi + 1] = WrapInt(@ * 2)]
    /\ paramData' = callerData'
    /\ vi' = vi + 1
    /\ UNCHANGED <<dataIn, vpc, vr, vprev>>

\* for i := range data { data[i] *= 2 }: one iteration
processValueSemantics_Loop ==
    /\ vpc = "loop"
    /\ vi < ArrLen
    /\ paramData' = [paramData EXCEPT ![vi + 1] = WrapInt(@ * 2)]
    /\ vi' = vi + 1
    /\ UNCHANGED <<callerData, dataIn, vpc, vr, vprev>>

\* return data, and the caller's r = ...
processValueSemantics_Return ==
    /\ vpc = "loop"
    /\ vi = ArrLen
    /\ vr' = paramData
    /\ vprev' = vr
    /\ paramData' = <<>>
    /\ vi' = 0
    /\ vpc' = "idle"
    /\ UNCHANGED <<callerData, dataIn>>

(***************************************************************************)
(* 1. Returning a pointer to a local: returnPointer, returnLocalPointer.   *)
(*                                                                         *)
(* cells is the storage an int variable can be given.  The caller keeps    *)
(* the pointers it was returned in the variables ptrs[1..MaxPtrs]; a       *)
(* piece of storage no pointer reaches any more is garbage, which the      *)
(* runtime may give to a later variable, with whatever it held.            *)
(***************************************************************************)
\* the pointer variables the caller has
MaxPtrs == 2
PtrVarIds == 1..MaxPtrs

\* the addresses: one more than the pointers the caller can hold at once
Addrs == 1..(MaxPtrs + 1)

\* returnPointer: x := 42
returnPointer_x == 42

\* returnLocalPointer: x := 42
returnLocalPointer_x == 42

\* what the caller stores through a pointer
StoreVals == {7}

PtrInit ==
    /\ cells = [a \in Addrs |-> 0]
    /\ ptrs = [k \in PtrVarIds |-> 0]
    /\ by = [k \in PtrVarIds |-> ""]
    /\ wrote = [k \in PtrVarIds |-> 0]

\* x kept in the function's frame, at the same address in every call
NewVariable_InFrame(p) == {1}

\* x := 42 with &x returned: x is a new variable at every call, and the
\* storage it gets is none that a pointer of the caller reaches
NewVariable(p) == Addrs \ {p[k] : k \in PtrVarIds}

\* ptrs[k] = f(), where f does x := v; return &x
ReturnAddressOfLocal(k, f, v) ==
    /\ \E a \in NewVariable(ptrs) :
          /\ cells' = [cells EXCEPT ![a] = v]
          /\ ptrs' = [ptrs EXCEPT ![k] = a]
    /\ by' = [by EXCEPT ![k] = f]
    /\ wrote' = [wrote EXCEPT ![k] = 0]

\* ptrs[k] = returnPointer()
returnPointer(k) == ReturnAddressOfLocal(k, "returnPointer", returnPointer_x)

\* ptrs[k] = returnLocalPointer()
returnLocalPointer(k) ==
    ReturnAddressOfLocal(k, "returnLocalPointer", returnLocalPointer_x)

\* *ptrs[k] = v
StoreThrough(k) ==
    /\ ptrs[k] # 0
    /\ \E v \in StoreVals :
          /\ cells' = [cells EXCEPT ![ptrs[k]] = v]
          /\ wrote' = [wrote EXCEPT ![k] = v]
    /\ UNCHANGED <<ptrs, by>>

\* ptrs[k] = nil
DropPointer(k) ==
    /\ ptrs[k] # 0
    /\ ptrs' = [ptrs EXCEPT ![k] = 0]
    /\ by' = [by EXCEPT ![k] = ""]
    /\ wrote' = [wrote EXCEPT ![k] = 0]
    /\ UNCHANGED cells

(***************************************************************************)
(* 8. sync.Pool: largeStructPool, useSyncPool, returnToPool.               *)
(*                                                                         *)
(* objs[o] is the data array of LargeStruct o.  largeStructPool[o] counts  *)
(* how many times o is in the pool.  An object that is neither in the      *)
(* pool nor held by a goroutine is memory the allocator may hand out       *)
(* again.  Each goroutine g does obj := useSyncPool(), writes to obj.data  *)
(* and calls returnToPool(obj).                                            *)
(***************************************************************************)
\* the goroutines using the pool
NumG == 2
Goroutines == 1..NumG

\* len(LargeStruct.data) (3000), scaled down
DataLen == 2

\* the LargeStruct objects that may exist at once: one per goroutine
Objects == 1..NumG

\* what a holder writes into data
WriteVals == {7}

\* LargeStruct{}
ZeroStruct == [i \in 1..DataLen |-> 0]

\* the object handed out as the pool gave it
ResetObj_Keep(d) == d

\* *obj = LargeStruct{}
ResetObj(d) == ZeroStruct

Held(o) == \E g \in Goroutines : obj[g] = o

PoolInit ==
    /\ objs = [o \in Objects |-> ZeroStruct]
    /\ largeStructPool = [o \in Objects |-> 0]
    /\ gpc = [g \in Goroutines |-> "idle"]
    /\ obj = [g \in Goroutines |-> 0]
    /\ gotDirty = [g \in Goroutines |-> FALSE]

\* a Get that hands out an object that was Put and leaves it in the pool
useSyncPool_GetPooled_Leaves(g) ==
    /\ gpc[g] = "idle"
    /\ \E o \in Objects :
          /\ largeStructPool[o] > 0
          /\ obj' = [obj EXCEPT ![g] = o]
          /\ gotDirty' = [gotDirty EXCEPT ![g] = (objs[o] # ZeroStruct)]
    /\ gpc' = [gpc EXCEPT ![g] = "got"]
    /\ UNCHANGED <<objs, largeStructPool>>

\* largeStructPool.Get() finds an object that was Put
useSyncPool_GetPooled(g) ==
    /\ gpc[g] = "idle"
    /\ \E o \in Objects :
          /\ largeStructPool[o] > 0
          /\ largeStructPool' = [largeStructPool EXCEPT ![o] = @ - 1]
          /\ obj' = [obj EXCEPT ![g] = o]
          /\ gotDirty' = [gotDirty EXCEPT ![g] = (objs[o] # ZeroStruct)]
    /\ gpc' = [gpc EXCEPT ![g] = "got"]
    /\ UNCHANGED objs

\* largeStructPool.Get() finds nothing it can take (the pool is empty, or
\* what it holds sits in another P's private slot) and calls New, which
\* returns &LargeStruct{}
useSyncPool_GetNew(g) ==
    /\ gpc[g] = "idle"
    /\ \E o \in Objects :
          /\ largeStructPool[o] = 0
          /\ ~Held(o)
          /\ objs' = [objs EXCEPT ![o] = ZeroStruct]
          /\ obj' = [obj EXCEPT ![g] = o]
    /\ gotDirty' = [gotDirty EXCEPT ![g] = FALSE]
    /\ gpc' = [gpc EXCEPT ![g] = "got"]
    /\ UNCHANGED largeStructPool

\* *obj = LargeStruct{}; return obj
useSyncPool_Reset(g) ==
    /\ gpc[g] = "got"
    /\ objs' = [objs EXCEPT ![obj[g]] = ResetObj(@)]
    /\ gpc' = [gpc EXCEPT ![g] = "returned"]
    /\ UNCHANGED <<largeStructPool, obj, gotDirty>>

\* the holder writes obj.data[i] = v
WriteData(g) ==
    /\ gpc[g] \in {"returned", "holding"}
    /\ \E i \in 1..DataLen, v \in WriteVals :
          objs' = [objs EXCEPT ![obj[g]][i] = v]
    /\ gpc' = [gpc EXCEPT ![g] = "holding"]
    /\ gotDirty' = [gotDirty EXCEPT ![g] = FALSE]
    /\ UNCHANGED <<largeStructPool, obj>>

\* returnToPool(obj): largeStructPool.Put(obj); the caller drops obj
returnToPool(g) ==
    /\ gpc[g] \in {"returned", "holding"}
    /\ largeStructPool' = [largeStructPool EXCEPT ![obj[g]] = @ + 1]
    /\ obj' = [obj EXCEPT ![g] = 0]
    /\ gpc' = [gpc EXCEPT ![g] = "idle"]
    /\ gotDirty' = [gotDirty EXCEPT ![g] = FALSE]
    /\ UNCHANGED objs

\* the garbage collector clears the pool of an object (sync.Pool keeps
\* what is Put only until a collection).  Nothing refers to the object
\* any more; what its memory holds is not read again before New zeroes
\* it, and is recorded as zero.
PoolDrop ==
    /\ \E o \in Objects :
          /\ largeStructPool[o] > 0
          /\ largeStructPool' = [largeStructPool EXCEPT ![o] = @ - 1]
          /\ objs' = IF largeStructPool[o] = 1
                        THEN [objs EXCEPT ![o] = ZeroStruct]
                        ELSE objs
    /\ UNCHANGED <<gpc, obj, gotDirty>>

(***************************************************************************)
(* 12. preallocatedSlice and its heap-allocating twin sliceGrowth.         *)
(*                                                                         *)
(* A slice built by append is [elems, cap]: its len elements and the       *)
(* capacity of its backing array.                                          *)
(***************************************************************************)
\* result := make([]int, 0, 100)
PreallocCap == 100

\* for i := 0; i < 100; i++ in preallocatedSlice
PreallocN == 100

\* for i := 0; i < 100; i++ in sliceGrowth
GrowthN == 100

\* make([]int, n) in place of make([]int, n, c)
MakeCap_IgnoresCap(n, c) == [elems |-> [i \in 1..n |-> 0], cap |-> n]

\* make([]int, n, c)
MakeCap(n, c) == [elems |-> [i \in 1..n |-> 0], cap |-> c]

\* append(s, v): in place while len < cap, else into a new, larger array
AppendInt(s, v) ==
    IF Len(s.elems) < s.cap
       THEN [elems |-> Append(s.elems, v), cap |-> s.cap]
       ELSE [elems |-> Append(s.elems, v),
             cap |-> GrowCap(s.cap, Len(s.elems) + 1)]

GrowInit ==
    /\ result = [elems |-> <<>>, cap |-> 0]
    /\ ppc = "start"
    /\ pi = 0
    /\ pAllocs = 0
    /\ slice = [elems |-> <<>>, cap |-> 0]
    /\ spc = "start"
    /\ si = 0
    /\ sAllocs = 0

\* result := make([]int, 0, 100)
preallocatedSlice_Make ==
    /\ ppc = "start"
    /\ result' = MakeCap(0, PreallocCap)
    /\ pAllocs' = 1
    /\ pi' = 0
    /\ ppc' = "loop"
    /\ UNCHANGED <<slice, spc, si, sAllocs>>

\* result = append(result, i*i); i++
preallocatedSlice_Append ==
    /\ ppc = "loop"
    /\ pi < PreallocN
    /\ result' = AppendInt(result, pi * pi)
    /\ pAllocs' = IF Len(result.elems) < result.cap THEN pAllocs ELSE pAllocs + 1
    /\ pi' = pi + 1
    /\ UNCHANGED <<ppc, slice, spc, si, sAllocs>>

\* return result
preallocatedSlice_Return ==
    /\ ppc = "loop"
    /\ pi >= PreallocN
    /\ ppc' = "done"
    /\ UNCHANGED <<result, pi, pAllocs, slice, spc, si, sAllocs>>

\* slice := []int{}: an empty slice of capacity 0, nothing allocated
sliceGrowth_Make ==
    /\ spc = "start"
    /\ slice' = [elems |-> <<>>, cap |-> 0]
    /\ sAllocs' = 0
    /\ si' = 0
    /\ spc' = "loop"
    /\ UNCHANGED <<result, ppc, pi, pAllocs>>

\* slice = append(slice, i*i); i++
sliceGrowth_Append ==
    /\ spc = "loop"
    /\ si < GrowthN
    /\ slice' = AppendInt(slice, si * si)
    /\ sAllocs' = IF Len(slice.elems) < slice.cap THEN sAllocs ELSE sAllocs + 1
    /\ si' = si + 1
    /\ UNCHANGED <<spc, result, ppc, pi, pAllocs>>

\* return slice
sliceGrowth_Return ==
    /\ spc = "loop"
    /\ si >= GrowthN
    /\ spc' = "done"
    /\ UNCHANGED <<slice, si, sAllocs, result, ppc, pi, pAllocs>>

(***************************************************************************)
(* Specifications.                                                         *)
(***************************************************************************)
\* the channel benchmark alone
InitChan ==
    /\ ChanInit
    /\ bN \in 0..MaxN
    /\ LookupInit
    /\ key = 0
    /\ SliceInit
    /\ r = NilSlice
    /\ BufferInit
    /\ PoolInit
    /\ GrowInit
    /\ MemInit
    /\ ValueInit(BenchData)
    /\ PtrInit

NextChan ==
    \/ sendToChannel /\ UNCHANGED <<lookupVars, sliceVars, bufVars, poolVars, growVars, memVars, valueVars, ptrVars>>
    \/ Receive /\ UNCHANGED <<lookupVars, sliceVars, bufVars, poolVars, growVars, memVars, valueVars, ptrVars>>
    \/ LoopExit /\ UNCHANGED <<lookupVars, sliceVars, bufVars, poolVars, growVars, memVars, valueVars, ptrVars>>

SpecChan == InitChan /\ [][NextChan]_vars

\* the two lookups alone, on one key
InitLookup ==
    /\ ChanInit
    /\ bN = 0
    /\ LookupInit
    /\ key \in Keys
    /\ SliceInit
    /\ r = NilSlice
    /\ BufferInit
    /\ PoolInit
    /\ GrowInit
    /\ MemInit
    /\ ValueInit(BenchData)
    /\ PtrInit

NextLookup ==
    \/ CallUseArrayInsteadOfMap /\ UNCHANGED <<chanVars, sliceVars, bufVars, poolVars, growVars, memVars, valueVars, ptrVars>>
    \/ CallMapLookup /\ UNCHANGED <<chanVars, sliceVars, bufVars, poolVars, growVars, memVars, valueVars, ptrVars>>

SpecLookup == InitLookup /\ [][NextLookup]_vars

\* initSliceViaPointer called again and again on one slice variable
InitSlice ==
    /\ ChanInit
    /\ bN = 0
    /\ LookupInit
    /\ key = 0
    /\ SliceInit
    /\ r \in InitialSlices
    /\ BufferInit
    /\ PoolInit
    /\ GrowInit
    /\ MemInit
    /\ ValueInit(BenchData)
    /\ PtrInit

NextSlice ==
    CallInitSliceViaPointer /\ UNCHANGED <<chanVars, lookupVars, bufVars, poolVars, growVars, memVars, valueVars, ptrVars>>

SpecSlice == InitSlice /\ [][NextSlice]_vars

\* the four functions that take an argument, called in any order
InitNoPanic ==
    /\ ChanInit
    /\ bN = 0
    /\ LookupInit
    /\ key \in Keys
    /\ SliceInit
    /\ r \in InitialSlices
    /\ BufferInit
    /\ PoolInit
    /\ GrowInit
    /\ MemInit
    /\ ValueInit(BenchData)
    /\ PtrInit

NextNoPanic ==
    \/ CallCreateSlice /\ UNCHANGED <<chanVars, lookupVars, bufVars, poolVars, growVars, memVars, valueVars, ptrVars>>
    \/ CallInitSliceViaPointer /\ UNCHANGED <<chanVars, lookupVars, bufVars, poolVars, growVars, memVars, valueVars, ptrVars>>
    \/ Running /\ CallUseArrayInsteadOfMap /\ UNCHANGED <<chanVars, sliceVars, bufVars, poolVars, growVars, memVars, valueVars, ptrVars>>
    \/ Running /\ CallMapLookup /\ UNCHANGED <<chanVars, sliceVars, bufVars, poolVars, growVars, memVars, valueVars, ptrVars>>

SpecNoPanic == InitNoPanic /\ [][NextNoPanic]_vars

\* one BufferProcessor and its caller
InitBuffer ==
    /\ ChanInit
    /\ bN = 0
    /\ LookupInit
    /\ key = 0
    /\ SliceInit
    /\ r = NilSlice
    /\ BufferInit
    /\ PoolInit
    /\ GrowInit
    /\ MemInit
    /\ ValueInit(BenchData)
    /\ PtrInit

NextBuffer ==
    \/ CallProcessData /\ UNCHANGED <<chanVars, lookupVars, sliceVars, poolVars, growVars, memVars, valueVars, ptrVars>>
    \/ CallProcessDataOnResult /\ UNCHANGED <<chanVars, lookupVars, sliceVars, poolVars, growVars, memVars, valueVars, ptrVars>>
    \/ KeepResult /\ UNCHANGED <<chanVars, lookupVars, sliceVars, poolVars, growVars, memVars, valueVars, ptrVars>>

SpecBuffer == InitBuffer /\ [][NextBuffer]_vars

\* the goroutines that use largeStructPool
InitPool ==
    /\ ChanInit
    /\ bN = 0
    /\ LookupInit
    /\ key = 0
    /\ SliceInit
    /\ r = NilSlice
    /\ BufferInit
    /\ PoolInit
    /\ GrowInit
    /\ MemInit
    /\ ValueInit(BenchData)
    /\ PtrInit

NextPool ==
    \/ \E g \in Goroutines :
          \/ useSyncPool_GetPooled(g) /\ UNCHANGED <<chanVars, lookupVars, sliceVars, bufVars, growVars, memVars, valueVars, ptrVars>>
          \/ useSyncPool_GetNew(g) /\ UNCHANGED <<chanVars, lookupVars, sliceVars, bufVars, growVars, memVars, valueVars, ptrVars>>
          \/ useSyncPool_Reset(g) /\ UNCHANGED <<chanVars, lookupVars, sliceVars, bufVars, growVars, memVars, valueVars, ptrVars>>
          \/ WriteData(g) /\ UNCHANGED <<chanVars, lookupVars, sliceVars, bufVars, growVars, memVars, valueVars, ptrVars>>
          \/ returnToPool(g) /\ UNCHANGED <<chanVars, lookupVars, sliceVars, bufVars, growVars, memVars, valueVars, ptrVars>>
    \/ PoolDrop /\ UNCHANGED <<chanVars, lookupVars, sliceVars, bufVars, growVars, memVars, valueVars, ptrVars>>

SpecPool == InitPool /\ [][NextPool]_vars

\* preallocatedSlice and sliceGrowth, each run once
InitGrow ==
    /\ ChanInit
    /\ bN = 0
    /\ LookupInit
    /\ key = 0
    /\ SliceInit
    /\ r = NilSlice
    /\ BufferInit
    /\ PoolInit
    /\ GrowInit
    /\ MemInit
    /\ ValueInit(BenchData)
    /\ PtrInit

NextGrow ==
    \/ preallocatedSlice_Make /\ UNCHANGED <<chanVars, lookupVars, sliceVars, bufVars, poolVars, memVars, valueVars, ptrVars>>
    \/ preallocatedSlice_Append /\ UNCHANGED <<chanVars, lookupVars, sliceVars, bufVars, poolVars, memVars, valueVars, ptrVars>>
    \/ preallocatedSlice_Return /\ UNCHANGED <<chanVars, lookupVars, sliceVars, bufVars, poolVars, memVars, valueVars, ptrVars>>
    \/ sliceGrowth_Make /\ UNCHANGED <<chanVars, lookupVars, sliceVars, bufVars, poolVars, memVars, valueVars, ptrVars>>
    \/ sliceGrowth_Append /\ UNCHANGED <<chanVars, lookupVars, sliceVars, bufVars, poolVars, memVars, valueVars, ptrVars>>
    \/ sliceGrowth_Return /\ UNCHANGED <<chanVars, lookupVars, sliceVars, bufVars, poolVars, memVars, valueVars, ptrVars>>

SpecGrow == InitGrow /\ [][NextGrow]_vars

\* ProcessData on slices of one memory
InitMem ==
    /\ ChanInit
    /\ bN = 0
    /\ LookupInit
    /\ key = 0
    /\ SliceInit
    /\ r = NilSlice
    /\ BufferInit
    /\ PoolInit
    /\ GrowInit
    /\ MemInit
    /\ ValueInit(BenchData)
    /\ PtrInit

NextMem ==
    \/ ProcessOwnData /\ UNCHANGED <<chanVars, lookupVars, sliceVars, bufVars, poolVars, growVars, valueVars, ptrVars>>
    \/ ProcessSliceOfMemory /\ UNCHANGED <<chanVars, lookupVars, sliceVars, bufVars, poolVars, growVars, valueVars, ptrVars>>

SpecMem == InitMem /\ [][NextMem]_vars

\* processValueSemantics called again and again on one array
InitValue ==
    /\ ChanInit
    /\ bN = 0
    /\ LookupInit
    /\ key = 0
    /\ SliceInit
    /\ r = NilSlice
    /\ BufferInit
    /\ PoolInit
    /\ GrowInit
    /\ MemInit
    /\ \E a \in IntArrays : ValueInit(a)
    /\ PtrInit

NextValue ==
    \/ processValueSemantics_Call /\ UNCHANGED <<chanVars, lookupVars, sliceVars, bufVars, poolVars, growVars, memVars, ptrVars>>
    \/ processValueSemantics_Loop /\ UNCHANGED <<chanVars, lookupVars, sliceVars, bufVars, poolVars, growVars, memVars, ptrVars>>
    \/ processValueSemantics_Return /\ UNCHANGED <<chanVars, lookupVars, sliceVars, bufVars, poolVars, growVars, memVars, ptrVars>>

SpecValue == InitValue /\ [][NextValue]_vars

\* a caller of returnPointer and returnLocalPointer
InitPtr ==
    /\ ChanInit
    /\ bN = 0
    /\ LookupInit
    /\ key = 0
    /\ SliceInit
    /\ r = NilSlice
    /\ BufferInit
    /\ PoolInit
    /\ GrowInit
    /\ MemInit
    /\ ValueInit(BenchData)
    /\ PtrInit

NextPtr ==
    \E k \in PtrVarIds :
        \/ returnPointer(k) /\ UNCHANGED <<chanVars, lookupVars, sliceVars, bufVars, poolVars, growVars, memVars, valueVars>>
        \/ returnLocalPointer(k) /\ UNCHANGED <<chanVars, lookupVars, sliceVars, bufVars, poolVars, growVars, memVars, valueVars>>
        \/ StoreThrough(k) /\ UNCHANGED <<chanVars, lookupVars, sliceVars, bufVars, poolVars, growVars, memVars, valueVars>>
        \/ DropPointer(k) /\ UNCHANGED <<chanVars, lookupVars, sliceVars, bufVars, poolVars, growVars, memVars, valueVars>>

SpecPtr == InitPtr /\ [][NextPtr]_vars

(***************************************************************************)
(* C1: in the loop { sendToChannel(ch); <-ch } run by one goroutine on an  *)
(* initially empty channel of capacity 1 no operation ever blocks: the    *)
(* channel is empty before every send, holds exactly the sent value       *)
(* before every receive, every receive yields 42, the channel is empty    *)
(* after every iteration, and the goroutine is never parked.               *)
(***************************************************************************)
C1_NeverBlocks ==
    /\ cpc # "blocked"
    /\ cpc \in {"send", "done"} => ch = <<>>
    /\ cpc = "recv" => Len(ch) = 1
    /\ ci > 0 => recv = 42

\* the loop ran several iterations to its end
C1_Witness == cpc = "done" /\ ci >= 3 /\ recv = 42

(***************************************************************************)
(* C3: for every key useArrayInsteadOfMap(key) returns what               *)
(* mapLookup(key) returns: "zero", "one", "two", "three" for 0..3 and      *)
(* "unknown" for every other key.                                          *)
(***************************************************************************)
C3_Expected(k) ==
    CASE k = 0 -> "zero"
      [] k = 1 -> "one"
      [] k = 2 -> "two"
      [] k = 3 -> "three"
      [] OTHER -> "unknown"

C3_SameAsMap ==
    /\ arrRet # "" => arrRet = C3_Expected(key)
    /\ mapRet # "" => mapRet = C3_Expected(key)
    /\ (arrRet # "" /\ mapRet # "") => arrRet = mapRet

\* both lookups returned for a key of the table
C3_Witness == key = 0 /\ arrRet = "zero" /\ mapRet = "zero"

(***************************************************************************)
(* C2 as stated: no call of createSlice, initSliceViaPointer,              *)
(* useArrayInsteadOfMap or mapLookup ends in a runtime panic, whatever     *)
(* the argument (negative ones included) and the initial slice.            *)
(***************************************************************************)
C2_NeverPanics ==
    /\ last.outcome # Panic
    /\ arrRet # Panic
    /\ mapRet # Panic

(***************************************************************************)
(* C2 as amended: the two lookups return normally for every key, and       *)
(* createSlice(size) and initSliceViaPointer(&s, size) return normally     *)
(* for every initial slice exactly when 0 <= size and size is no more      *)
(* than the runtime can allocate; a negative size makes both panic.        *)
(***************************************************************************)
C2_PanicsOnlyOnBadSize ==
    /\ arrRet # Panic
    /\ mapRet # Panic
    /\ last.outcome = Panic <=>
          /\ last.fn \in {"createSlice", "initSliceViaPointer"}
          /\ (last.size < 0 \/ last.size > MaxAllocLen)

\* both lookups returned for a negative key and initSliceViaPointer
\* returned for the largest size the runtime accepts
C2_Witness ==
    /\ key < 0
    /\ arrRet = "unknown"
    /\ mapRet = "unknown"
    /\ last.fn = "initSliceViaPointer"
    /\ last.size = MaxAllocLen
    /\ last.outcome = "returned"

(***************************************************************************)
(* C5: a call initSliceViaPointer(&r, size) with size >= 0 makes a new     *)
(* backing array exactly when size exceeds the capacity r had, and         *)
(* otherwise keeps the array r had; the capacity of r never decreases, and *)
(* a call with the size of the call before it allocates nothing.           *)
(***************************************************************************)
C5_AllocatesOnlyIfNeeded ==
    (last.fn = "initSliceViaPointer" /\ last.size >= 0 /\ last.outcome = "returned") =>
        /\ (r.id # last.oldId) <=> (last.size > last.oldCap)
        /\ Cap(r) >= last.oldCap
        /\ last.prevSize = last.size => r.id = last.oldId

\* a call that reused the array an earlier, larger call had made
C5_Witness ==
    /\ last.fn = "initSliceViaPointer"
    /\ last.outcome = "returned"
    /\ last.prevSize > last.size
    /\ last.size > 0
    /\ r.id = last.oldId
    /\ r.id > 0
    /\ allocs = 1

(***************************************************************************)
(* C10: after initSliceViaPointer(result, size) with size >= 0 returns,    *)
(* lenresult = size and result[i] = i for every 0 <= i < size,       *)
(* whatever *result held before (nil, shorter, longer, stale contents)     *)
(* and whatever calls came before.                                         *)
(***************************************************************************)
C10_LenAndIndices ==
    (last.fn = "initSliceViaPointer" /\ last.size >= 0 /\ last.outcome = "returned") =>
        /\ r.len = last.size
        /\ r.len <= Cap(r)
        /\ \A i \in 1..r.len : r.arr[i] = i - 1

\* a call that shortened the caller's own array, whose stale tail remains,
\* and a call that grew a slice to the largest size
C10_Witness ==
    /\ last.fn = "initSliceViaPointer"
    /\ last.outcome = "returned"
    /\ last.size = 1
    /\ r.id = 0
    /\ Cap(r) = 2
    /\ r.arr = <<0, 7>>

\* the complement of every byte of a sequence
C4_Complement(in) == [i \in 1..Len(in) |-> 255 - in[i]]

(***************************************************************************)
(* C4 as stated: the buffer is used only within one ProcessData call, so   *)
(* a slice an earlier call returned still holds the complement of that     *)
(* call's input after any later ProcessData calls on the same processor.   *)
(***************************************************************************)
C4_EarlierResultKept ==
    held.arr # 0 => ReadSlice(heap, dataArr, held) = C4_Complement(heldIn)

(***************************************************************************)
(* C4 as amended: the buffer stays in the processor and every              *)
(* ProcessData call reuses it; the slice a call returns is bp.buffer       *)
(* itself, not a copy, and holds the complement of that call's input       *)
(* until the next ProcessData call on the same processor: a slice kept     *)
(* from an earlier call shares the buffer's array unless a later call had  *)
(* to grow it.                                                             *)
(***************************************************************************)
C4_LatestResultOnly ==
    /\ calls > 0 =>
          /\ out.arr = bp_buffer.arr
          /\ out.len = bp_buffer.len
          /\ ReadSlice(heap, dataArr, out) = C4_Complement(lastIn)
    /\ (held.arr # 0 /\ Len(heap) = 1) => held.arr = out.arr

\* a later call on other bytes of the caller's own has overwritten, in
\* place, the slice kept from an earlier call
C4_Witness ==
    /\ calls >= 2
    /\ held.arr = bp_buffer.arr
    /\ held # out
    /\ data.arr = 0
    /\ ReadSlice(heap, dataArr, held) # C4_Complement(heldIn)
    /\ ReadSlice(heap, dataArr, out) = C4_Complement(lastIn)

(***************************************************************************)
(* C6: while every input has len(data) <= the buffer's capacity, the       *)
(* array NewBufferProcessor made is never replaced (the capacity stays     *)
(* what it was and append makes no array), and the length of each result   *)
(* is the length of that call's input, not a running total.                *)
(***************************************************************************)
C6_KeepsCapacity ==
    allFit =>
        /\ bp_buffer.arr = 1
        /\ bp_buffer.cap = BufferCap
        /\ Len(heap) = 1
        /\ Len(heap[1]) = BufferCap
        /\ bp_buffer.len = Len(lastIn)
        /\ calls > 0 => (out.arr = 1 /\ out.len = Len(lastIn))

\* the last of several calls passed a shorter input than the one before
C6_Witness ==
    /\ allFit
    /\ calls = MaxCalls
    /\ held.len = BufferCap
    /\ out.len = 1
    /\ out.arr = 1

(***************************************************************************)
(* C7: every object useSyncPool returns has all elements of data equal to  *)
(* zero, whether the pool supplied an object that was written to and       *)
(* returned before or New made one, after any calls, writes to held        *)
(* objects and returnToPool calls.                                         *)
(***************************************************************************)
C7_HandedOutReset ==
    \A g \in Goroutines :
        gpc[g] = "returned" =>
            /\ obj[g] \in Objects
            /\ \A i \in 1..DataLen : objs[obj[g]][i] = 0

\* useSyncPool has just returned an object the pool handed back with data
\* an earlier holder wrote
C7_Witness ==
    \E g \in Goroutines : gpc[g] = "returned" /\ gotDirty[g]

(***************************************************************************)
(* C8: preallocatedSlice and sliceGrowth return the same result, of        *)
(* length 100 with element i equal to i*i; in preallocatedSlice the        *)
(* length never exceeds the initial capacity 100, so its backing array is  *)
(* allocated once and never regrown, whereas sliceGrowth replaces its      *)
(* backing array more than once.                                           *)
(***************************************************************************)
C8_SameResultOneAllocation ==
    /\ ppc # "start" =>
          /\ Len(result.elems) <= 100
          /\ result.cap = 100
          /\ pAllocs = 1
    /\ ppc = "done" =>
          /\ Len(result.elems) = 100
          /\ \A i \in 0..99 : result.elems[i + 1] = i * i
    /\ spc = "done" =>
          /\ Len(slice.elems) = 100
          /\ \A i \in 0..99 : slice.elems[i + 1] = i * i
          /\ sAllocs > 1
    /\ (ppc = "done" /\ spc = "done") => result.elems = slice.elems

\* both functions have returned, sliceGrowth after growing several times
C8_Witness ==
    /\ ppc = "done"
    /\ spc = "done"
    /\ pAllocs = 1
    /\ sAllocs > 2
    /\ slice.cap > Len(slice.elems)

\* the data of the last call has bytes in the array bp.buffer was in
C11_SharesMemory == arg.len > 0 /\ arg.arr = bufWas

(***************************************************************************)
(* C11: after every ProcessData(data) call, whatever slice of memory data  *)
(* is (empty, longer than the buffer's capacity, a slice of the buffer's   *)
(* own array), the returned slice has the length data had and its byte i   *)
(* is 255 minus the byte i data held when the call was made; and when     *)
(* data is empty or lies in another array than the one bp.buffer was in    *)
(* when the call was made, data still shows the bytes it held.             *)
(***************************************************************************)
C11_ComplementAndDataKept ==
    ncalls > 0 =>
        /\ got.len = Len(argIn)
        /\ \A i \in 1..Len(argIn) :
              ReadSlice(memory, <<>>, got)[i] = 255 - argIn[i]
        /\ (~C11_SharesMemory => ReadSlice(memory, <<>>, arg) = argIn)

\* a second or later call, on the caller's own bytes, more of them than
\* the buffer held and not all zero, so that append made a new array
C11_Witness ==
    /\ ncalls > 1
    /\ arg.arr = CallerArr
    /\ Len(argIn) > BufferCap
    /\ \E i \in 1..Len(argIn) : argIn[i] # 0
    /\ buffer.arr # bufWas
    /\ ReadSlice(memory, <<>>, arg) = argIn

(***************************************************************************)
(* C12, as stated: the caller's array is never changed by the calls, the   *)
(* array a call returned has element i equal to twice element i of the    *)
(* caller's array, and two calls in a row return the same array.           *)
(***************************************************************************)
C12_ExactlyTwice ==
    /\ callerData = dataIn
    /\ vr # <<>> => \A i \in 1..ArrLen : vr[i] = 2 * dataIn[i]
    /\ vprev # <<>> => vprev = vr

(***************************************************************************)
(* C12, amended: the caller's array is never changed by the calls, two     *)
(* calls in a row return the same array, and element i of the returned     *)
(* array is the int that differs from twice element i of the caller's      *)
(* array by a multiple of 2^IntBits: twice the element when that is an     *)
(* int, and that number wrapped around when it is not.                     *)
(***************************************************************************)
C12_TwiceAsAnIntOnACopy ==
    /\ callerData = dataIn
    /\ vr # <<>> =>
          \A i \in 1..ArrLen :
             /\ vr[i] \in IntMin..IntMax
             /\ (vr[i] - 2 * dataIn[i]) % 2 ^ IntBits = 0
    /\ vprev # <<>> => vprev = vr

\* two calls have returned, on an array with an element whose double is an
\* int and not zero and an element whose double is too large for an int
C12_Witness ==
    /\ vpc = "idle"
    /\ vprev # <<>>
    /\ \E i \in 1..ArrLen : vr[i] # 0 /\ vr[i] = 2 * dataIn[i]
    /\ \E i \in 1..ArrLen : 2 * dataIn[i] > IntMax

(***************************************************************************)
(* C13: whatever the interleaving of the goroutines, no two goroutines     *)
(* hold the same LargeStruct, and an object a goroutine holds is not in    *)
(* the pool, where a Get could find it: it is in the pool at most once,    *)
(* and only from its holder's returnToPool until the next Get or           *)
(* collection.                                                             *)
(***************************************************************************)
C13_OneHolder ==
    /\ \A g1, g2 \in Goroutines :
          (g1 # g2 /\ obj[g1] # 0) => obj[g1] # obj[g2]
    /\ \A g \in Goroutines :
          /\ (gpc[g] # "idle") = (obj[g] # 0)
          /\ obj[g] # 0 => largeStructPool[obj[g]] = 0
    /\ \A o \in Objects : largeStructPool[o] <= 1

\* Get has just handed a goroutine an object with the data its earlier
\* holder wrote before returning it, while another goroutine holds an
\* object it has written to
C13_Witness ==
    \E g1, g2 \in Goroutines :
        /\ gpc[g1] = "got"
        /\ gotDirty[g1]
        /\ gpc[g2] = "holding"
        /\ obj[g1] # obj[g2]

(***************************************************************************)
(* C14: after any sequence of calls, stores and drops, the pointers the    *)
(* caller holds from different calls of returnPointer and                  *)
(* returnLocalPointer are different addresses, and reading through each    *)
(* gives 42 when the caller has stored nothing through it and otherwise    *)
(* the value it stored last through that same pointer, whatever it stored  *)
(* through the others.                                                     *)
(***************************************************************************)
C14_FreshCells ==
    /\ \A k1, k2 \in PtrVarIds :
          (k1 # k2 /\ ptrs[k1] # 0) => ptrs[k1] # ptrs[k2]
    /\ \A k \in PtrVarIds :
          ptrs[k] # 0 =>
              cells[ptrs[k]] = IF wrote[k] = 0 THEN 42 ELSE wrote[k]

\* a pointer from returnPointer the caller has stored nothing through
\* beside one from returnLocalPointer it has stored through, and garbage
\* that holds what was stored through a pointer since dropped
C14_Witness ==
    \E k1, k2 \in PtrVarIds :
        /\ by[k1] = "returnPointer"
        /\ by[k2] = "returnLocalPointer"
        /\ wrote[k1] = 0
        /\ wrote[k2] # 0
        /\ \E a \in Addrs : a # ptrs[k1] /\ a # ptrs[k2] /\ cells[a] \in StoreVals

=============================================================================
